---- MODULE Spec2Model ----
(***************************************************************************)
(* Model of app.py, the Streamlit production tracker.                      *)
(*                                                                         *)
(* The script is re-executed top to bottom on every user interaction.      *)
(* One action of the model is one execution of the script: the restore     *)
(* scan (lines 44-59) followed by the handler of the widget that was       *)
(* activated (form submit, End button, Cancel button) or by nothing.       *)
(* An uncaught exception ends the execution where it is raised; what was   *)
(* already written to the sheet or to st.session_state stays.              *)
(*                                                                         *)
(* Representation of values:                                               *)
(*   - a datetime is a number of seconds since 1900-01-01 00:00:00, the    *)
(*     date datetime.strptime gives to a string that holds only a time;    *)
(*   - a "%H:%M:%S" string is the tuple <<h, m, s>> and the empty string   *)
(*     of a blank cell is the empty tuple <<>>;                            *)
(*   - a "%d-%m-%Y" string is the number of the day since 1900-01-01;      *)
(*   - a number written into a cell that may also be blank is the          *)
(*     one-element tuple <<v>>; a float rounded to 2 decimals is its       *)
(*     (integer) number of hundredths;                                     *)
(*   - a float before rounding is the exact fraction <<num, den>>, den > 0.*)
(***************************************************************************)
EXTENDS Integers, Sequences, FiniteSets, TLC

\* ---------------------------------------------------------------- bounds
\* most data rows the sheet holds
MaxRows == 2
\* the day of the session, counted from 1900-01-01 (day 0)
Today == 5
\* most data rows the sheet holds where update_cell can fail (SpecFail)
FailRows == 1

\* times of day (seconds after midnight) at which the clock is read:
\* 09:00:00 and 11:00:00
ClockTimes == {9 * 3600, 11 * 3600}
Products == {"", "Soap"}
\* values of the "Total Persons" input; 0 is what line 72 guards against
PersonCounts == {0, 2}
Productions == {0, 100}
Remarks == {"night shift"}

\* ------------------------------------------------------- sheet columns
ColDate == 1
ColProduct == 2
ColStart == 3
ColEnd == 4
ColHours == 5
ColPersons == 6
ColProduction == 7
ColPerHour == 8
ColPerManHour == 9
ColCost == 10
ColRemark == 11
ColStatus == 12

Header ==
    << "Date", "Product Name", "Start Time", "End Time", "Hours",
       "Total Persons", "Actual Production",
       "Per Hour Production", "Per Man Hour", "Packaging Cost", "Remark", "Status" >>

Blank == << >>

VARIABLES
    sheet,          \* the worksheet: sheet[1] is the header, sheet[r] the row at position r
    running_tasks,  \* st.session_state.running_tasks: task_id -> task
    now,            \* what datetime.now() returns, in seconds since 1900-01-01
    stamp,          \* number of timestamp task ids issued (keeps str(timestamp()) unique)
    msg,            \* what the last execution showed: st.success/st.error/st.warning or the exception
    peer_tasks,     \* st.session_state.running_tasks of a second browser session
    pending         \* per session: the submission between append_row (line 77) and line 90

vars == << sheet, running_tasks, now, stamp, msg, peer_tasks, pending >>

\* the state of the second session and of the submissions under way
peer == << peer_tasks, pending >>

\* the two browser sessions; running_tasks is the dictionary of session 1
Sessions == {1, 2}

\* ------------------------------------------------------------ datetime
SecondsOfDay(dt) == dt % (24 * 3600)

\* start_time.strftime("%d-%m-%Y")
StrfDate(dt) == dt \div (24 * 3600)

\* dt.strftime("%H:%M:%S"): the date is dropped
StrfTime(dt) ==
    LET s == SecondsOfDay(dt)
    IN  << s \div 3600, (s % 3600) \div 60, s % 60 >>

\* does datetime.strptime(text, "%H:%M:%S") accept text
ParsesAsTime(text) ==
    /\ Len(text) = 3
    /\ text[1] \in 0..23
    /\ text[2] \in 0..59
    /\ text[3] \in 0..59

\* datetime.strptime(text, "%H:%M:%S"): the date is 1900-01-01
StrpTime(text) == text[1] * 3600 + text[2] * 60 + text[3]

\* ------------------------------------------------------------- metrics
\* fractions <<n, d>> with d > 0
Positive(q) == q[1] > 0
Zero == << 0, 1 >>

\* (end_time - start_time).total_seconds() / 3600
Hours(start_time, end_time) == << end_time - start_time, 3600 >>

\* variant of PerHour: the guard is hours != 0 and the size of hours is used
PerHour_NonZeroGuard(production, hours) ==
    IF hours[1] > 0 THEN << production * hours[2], hours[1] >>
    ELSE IF hours[1] < 0 THEN << production * hours[2], 0 - hours[1] >>
    ELSE Zero

\* actual_production / hours if hours > 0 else 0
PerHour(production, hours) ==
    IF Positive(hours) THEN << production * hours[2], hours[1] >> ELSE Zero

\* variant of PerManHour: actual_production / hours * total_persons
PerManHour_TimesPersons(production, hours, persons) ==
    IF Positive(hours) /\ persons > 0
    THEN << production * hours[2] * persons, hours[1] >>
    ELSE Zero

\* actual_production / (hours * total_persons) if hours > 0 and total_persons > 0 else 0
PerManHour(production, hours, persons) ==
    IF Positive(hours) /\ persons > 0
    THEN << production * hours[2], hours[1] * persons >>
    ELSE Zero

\* variant of PackagingCost: per_man_hour / 50
PackagingCost_Inverse(per_man_hour) ==
    IF Positive(per_man_hour)
    THEN << per_man_hour[1], 50 * per_man_hour[2] >>
    ELSE Zero

\* variant of PackagingCost: the cost basis is returned when nothing was produced
PackagingCost_ElseFifty(per_man_hour) ==
    IF Positive(per_man_hour)
    THEN << 50 * per_man_hour[2], per_man_hour[1] >>
    ELSE << 50, 1 >>

\* 50 / per_man_hour if per_man_hour > 0 else 0
PackagingCost(per_man_hour) ==
    IF Positive(per_man_hour)
    THEN << 50 * per_man_hour[2], per_man_hour[1] >>
    ELSE Zero

\* variant of Round2: the digits after the second decimal are cut off
Round2_Truncated(q) == 100 * (q[1] \div q[2]) + (100 * (q[1] % q[2])) \div q[2]

\* round(q, 2), as a number of hundredths; a tie goes to the even neighbour
Round2(q) ==
    LET whole == q[1] \div q[2]
        rest  == q[1] % q[2]
        low   == 100 * whole + (100 * rest) \div q[2]
        twice == 2 * ((100 * rest) % q[2])
    IN  IF twice > q[2] THEN low + 1
        ELSE IF twice < q[2] THEN low
        ELSE IF low % 2 = 0 THEN low ELSE low + 1

\* ---------------------------------------------------------- dictionary
Put(d, k, v) == [x \in DOMAIN d \cup {k} |-> IF x = k THEN v ELSE d[x]]
Del(d, k) == [x \in DOMAIN d \ {k} |-> d[x]]
NoTasks == [x \in {} |-> 0]

\* ------------------------------------------------------------- gspread
\* sheet.update_cell(row, col, value)
UpdateCell(sh, row, col, value) == [sh EXCEPT ![row][col] = value]

\* sheet.append_row(values)
AppendRow(sh, values) == Append(sh, values)

\* ------------------------------------------------------- restore scan
RowTaskId(idx) == << "row", idx >>

\* variant of RestoredTask: the position is counted from the first data row
RestoredTask_CountedFromData(idx, row) ==
    [ Row |-> idx - 1,
      Date |-> row[ColDate],
      ProductName |-> row[ColProduct],
      StartTime |-> StrpTime(row[ColStart]),
      TotalPersons |-> row[ColPersons],
      ActualProduction |-> row[ColProduction],
      Remark |-> row[ColRemark],
      Status |-> "Running" ]

\* lines 50-59: the task rebuilt from the record of the row at position idx
RestoredTask(idx, row) ==
    [ Row |-> idx,
      Date |-> row[ColDate],
      ProductName |-> row[ColProduct],
      StartTime |-> StrpTime(row[ColStart]),
      TotalPersons |-> row[ColPersons],
      ActualProduction |-> row[ColProduction],
      Remark |-> row[ColRemark],
      Status |-> "Running" ]

\* variant of RestoreRow: the key is made from the number of tasks held
RestoreRow_KeyedByCount(idx, tasks, sh) ==
    LET row == sh[idx]
        task_id == << "row", Cardinality(DOMAIN tasks) + 2 >>
    IN  IF row[ColStatus] = "Running" /\ task_id \notin DOMAIN tasks
        THEN IF ParsesAsTime(row[ColStart])
             THEN [ tasks |-> Put(tasks, task_id, RestoredTask(idx, row)), error |-> "" ]
             ELSE [ tasks |-> tasks, error |-> "ValueError" ]
        ELSE [ tasks |-> tasks, error |-> "" ]

\* one iteration of the loop of lines 45-59; strptime (line 54) raises
\* ValueError on a text that is not a time, and nothing catches it
RestoreRow(idx, tasks, sh) ==
    LET row == sh[idx]
        task_id == RowTaskId(idx)
    IN  IF row[ColStatus] = "Running" /\ task_id \notin DOMAIN tasks
        THEN IF ParsesAsTime(row[ColStart])
             THEN [ tasks |-> Put(tasks, task_id, RestoredTask(idx, row)), error |-> "" ]
             ELSE [ tasks |-> tasks, error |-> "ValueError" ]
        ELSE [ tasks |-> tasks, error |-> "" ]

RECURSIVE RestoreFrom(_, _, _)
RestoreFrom(idx, tasks, sh) ==
    IF idx > Len(sh)
    THEN [ tasks |-> tasks, error |-> "" ]
    ELSE LET step == RestoreRow(idx, tasks, sh)
         IN  IF step.error # "" THEN step ELSE RestoreFrom(idx + 1, step.tasks, sh)

\* lines 44-59: enumerate(records, start=2)
Restore(tasks, sh) == RestoreFrom(2, tasks, sh)

\* ---------------------------------------------------------------- init
Init ==
    /\ sheet = << Header >>
    /\ running_tasks = NoTasks
    /\ now \in { Today * 24 * 3600 + t : t \in ClockTimes }
    /\ stamp = 0
    /\ msg = ""
    /\ peer_tasks = NoTasks
    /\ pending = [s \in Sessions |-> << >>]

\* time passes between two executions of the script
Tick ==
    /\ \E t \in ClockTimes :
          /\ Today * 24 * 3600 + t > now
          /\ now' = Today * 24 * 3600 + t
    /\ UNCHANGED << sheet, running_tasks, stamp, msg, peer >>

\* an execution in which no handler runs (lines 44-59 only)
Rerun ==
    LET r == Restore(running_tasks, sheet)
    IN  /\ running_tasks' = r.tasks
        /\ msg' = r.error
        /\ UNCHANGED << sheet, now, stamp, peer >>

\* a new browser session: lines 40-41 give it an empty dictionary, then lines 44-59
Refresh ==
    LET r == Restore(NoTasks, sheet)
    IN  /\ running_tasks' = r.tasks
        /\ msg' = r.error
        /\ UNCHANGED << sheet, now, stamp, peer >>

\* lines 77-87: the row start_task appends
NewRow(start_time, product_name, total_persons, actual_production, remark) ==
    << StrfDate(start_time), product_name, StrfTime(start_time),
       Blank, Blank,
       total_persons, actual_production,
       Blank, Blank, Blank,
       remark, "Running" >>

\* variant of RowIndex: the rows are counted before the append
RowIndex_BeforeAppend(appended) == Len(appended) - 1

\* line 90: len(sheet.get_all_values()) after the append
RowIndex(appended) == Len(appended)

\* variant of ValidInput: the person count is not looked at
ValidInput_NameOnly(product_name, total_persons) == product_name # ""

\* line 72
ValidInput(product_name, total_persons) == product_name # "" /\ total_persons > 0

\* lines 71-105: the form was submitted
StartTask(product_name, total_persons, actual_production, remark) ==
    LET r == Restore(running_tasks, sheet)
    IN  IF r.error # ""
        THEN /\ running_tasks' = r.tasks
             /\ msg' = r.error
             /\ UNCHANGED << sheet, now, stamp, peer >>
        ELSE IF ValidInput(product_name, total_persons)
        THEN LET task_id == << "ts", stamp + 1 >>
                 start_time == now
                 appended == AppendRow(sheet,
                     NewRow(start_time, product_name, total_persons, actual_production, remark))
                 row_index == RowIndex(appended)
             IN  /\ Len(sheet) <= MaxRows
                 /\ sheet' = appended
                 /\ running_tasks' = Put(r.tasks, task_id,
                        [ Row |-> row_index,
                          Date |-> StrfDate(start_time),
                          ProductName |-> product_name,
                          StartTime |-> start_time,
                          TotalPersons |-> total_persons,
                          ActualProduction |-> actual_production,
                          Remark |-> remark,
                          Status |-> "Running" ])
                 /\ stamp' = stamp + 1
                 /\ msg' = "Task started"
                 /\ UNCHANGED << now, peer >>
        ELSE /\ running_tasks' = r.tasks
             /\ msg' = "Please enter Product Name and Persons"
             /\ UNCHANGED << sheet, now, stamp, peer >>

\* variant of EndWrites: columns 8 and 9 are exchanged
EndWrites_SwappedColumns(sh, task, end_time) ==
    LET hours == Hours(task.StartTime, end_time)
        per_hour == PerHour(task.ActualProduction, hours)
        per_man_hour == PerManHour(task.ActualProduction, hours, task.TotalPersons)
        packaging_cost == PackagingCost(per_man_hour)
        row == task.Row
        w1 == UpdateCell(sh, row, ColEnd, StrfTime(end_time))
        w2 == UpdateCell(w1, row, ColHours, << Round2(hours) >>)
        w3 == UpdateCell(w2, row, ColPerManHour, << Round2(per_hour) >>)
        w4 == UpdateCell(w3, row, ColPerHour, << Round2(per_man_hour) >>)
        w5 == UpdateCell(w4, row, ColCost, << Round2(packaging_cost) >>)
    IN  UpdateCell(w5, row, ColStatus, "Completed")

\* variant of EndWrites: "Completed" is written one column to the left
EndWrites_StatusInRemark(sh, task, end_time) ==
    LET hours == Hours(task.StartTime, end_time)
        per_hour == PerHour(task.ActualProduction, hours)
        per_man_hour == PerManHour(task.ActualProduction, hours, task.TotalPersons)
        packaging_cost == PackagingCost(per_man_hour)
        row == task.Row
        w1 == UpdateCell(sh, row, ColEnd, StrfTime(end_time))
        w2 == UpdateCell(w1, row, ColHours, << Round2(hours) >>)
        w3 == UpdateCell(w2, row, ColPerHour, << Round2(per_hour) >>)
        w4 == UpdateCell(w3, row, ColPerManHour, << Round2(per_man_hour) >>)
        w5 == UpdateCell(w4, row, ColCost, << Round2(packaging_cost) >>)
    IN  UpdateCell(w5, row, ColRemark, "Completed")

\* lines 138-143: the six cells end_task writes
EndWrites(sh, task, end_time) ==
    LET hours == Hours(task.StartTime, end_time)
        per_hour == PerHour(task.ActualProduction, hours)
        per_man_hour == PerManHour(task.ActualProduction, hours, task.TotalPersons)
        packaging_cost == PackagingCost(per_man_hour)
        row == task.Row
        w1 == UpdateCell(sh, row, ColEnd, StrfTime(end_time))
        w2 == UpdateCell(w1, row, ColHours, << Round2(hours) >>)
        w3 == UpdateCell(w2, row, ColPerHour, << Round2(per_hour) >>)
        w4 == UpdateCell(w3, row, ColPerManHour, << Round2(per_man_hour) >>)
        w5 == UpdateCell(w4, row, ColCost, << Round2(packaging_cost) >>)
    IN  UpdateCell(w5, row, ColStatus, "Completed")

\* lines 120-147: the End button of task_id was pressed
EndTask(task_id) ==
    /\ task_id \in DOMAIN running_tasks
    /\ LET r == Restore(running_tasks, sheet)
       IN  IF r.error # ""
           THEN /\ running_tasks' = r.tasks
                /\ msg' = r.error
                /\ UNCHANGED << sheet, now, stamp, peer >>
           ELSE /\ sheet' = EndWrites(sheet, r.tasks[task_id], now)
                /\ running_tasks' = Del(r.tasks, task_id)
                /\ msg' = "Task ended"
                /\ UNCHANGED << now, stamp, peer >>

\* lines 138-143 in the order of the calls: the column and the value of each write
EndCells(task, end_time) ==
    LET hours == Hours(task.StartTime, end_time)
        per_hour == PerHour(task.ActualProduction, hours)
        per_man_hour == PerManHour(task.ActualProduction, hours, task.TotalPersons)
        packaging_cost == PackagingCost(per_man_hour)
    IN  << << ColEnd, StrfTime(end_time) >>,
           << ColHours, << Round2(hours) >> >>,
           << ColPerHour, << Round2(per_hour) >> >>,
           << ColPerManHour, << Round2(per_man_hour) >> >>,
           << ColCost, << Round2(packaging_cost) >> >>,
           << ColStatus, "Completed" >> >>

\* the sheet after the first k calls of lines 138-143
RECURSIVE WriteCells(_, _, _, _)
WriteCells(sh, row, cells, k) ==
    IF k = 0
    THEN sh
    ELSE UpdateCell(WriteCells(sh, row, cells, k - 1), row, cells[k][1], cells[k][2])

\* variant of TasksAfterFailedWrite: the task is deleted although the write raised
TasksAfterFailedWrite_Deleted(tasks, task_id) == Del(tasks, task_id)

\* lines 138-146: update_cell raised, line 146 (del) is not reached
TasksAfterFailedWrite(tasks, task_id) == tasks

\* lines 120-146: the End button of task_id was pressed and, after k of the
\* six update_cell calls, the next one raises gspread's APIError
EndTaskFails(task_id, k) ==
    /\ task_id \in DOMAIN running_tasks
    /\ LET r == Restore(running_tasks, sheet)
       IN  /\ r.error = ""
           /\ sheet' = WriteCells(sheet, r.tasks[task_id].Row, EndCells(r.tasks[task_id], now), k)
           /\ running_tasks' = TasksAfterFailedWrite(r.tasks, task_id)
           /\ msg' = "APIError"
           /\ UNCHANGED << now, stamp, peer >>

\* lines 150-154: the Cancel button of task_id was pressed.
\* update_cell(row, col, value) is called with two arguments: the call raises
\* TypeError before anything is sent, and lines 153-154 are not reached.
CancelTask(task_id) ==
    /\ task_id \in DOMAIN running_tasks
    /\ LET r == Restore(running_tasks, sheet)
       IN  /\ running_tasks' = r.tasks
           /\ msg' = IF r.error # "" THEN r.error ELSE "TypeError"
           /\ UNCHANGED << sheet, now, stamp, peer >>

TaskIds == { << k, n >> : k \in {"row", "ts"}, n \in 1..(MaxRows + 1) }

Next ==
    \/ Tick
    \/ Rerun
    \/ Refresh
    \/ \E p \in Products, n \in PersonCounts, a \in Productions, rem \in Remarks :
          StartTask(p, n, a, rem)
    \/ \E task_id \in TaskIds : EndTask(task_id)
    \/ \E task_id \in TaskIds : CancelTask(task_id)

Spec == Init /\ [][Next]_vars

\* The worksheet is a shared Google spreadsheet: somebody clears the
\* Start Time cell of a row by hand.
ClearStartTime(r) ==
    /\ r \in 2..Len(sheet)
    /\ sheet[r][ColStart] # Blank
    /\ sheet' = UpdateCell(sheet, r, ColStart, Blank)
    /\ UNCHANGED << running_tasks, now, stamp, msg, peer >>

NextEdited ==
    \/ Next
    \/ \E r \in 2..(MaxRows + 1) : ClearStartTime(r)

\* the program next to hand edits of the sheet
SpecEdited == Init /\ [][NextEdited]_vars

\* no End has written to the row of task_id yet
FirstEnd(task_id) ==
    /\ task_id \in DOMAIN running_tasks
    /\ sheet[running_tasks[task_id].Row][ColStatus] = "Running"
    /\ \A c \in {ColEnd, ColHours, ColPerHour, ColPerManHour, ColCost} :
          sheet[running_tasks[task_id].Row][c] = Blank

\* The executions of the script over at most FailRows tasks; update_cell may
\* fail while a row is ended for the first time.
NextFail ==
    \/ Tick
    \/ Rerun
    \/ Refresh
    \/ \E p \in Products, n \in PersonCounts, a \in Productions, rem \in Remarks :
          Len(sheet) <= FailRows /\ StartTask(p, n, a, rem)
    \/ \E task_id \in TaskIds : EndTask(task_id)
    \/ \E task_id \in TaskIds : CancelTask(task_id)
    \/ \E task_id \in TaskIds, k \in 0..5 : FirstEnd(task_id) /\ EndTaskFails(task_id, k)

\* the program with a store whose update_cell can fail
SpecFail == Init /\ [][NextFail]_vars

\* One task with inputs of the calculator's interesting cases: started two
\* days ago or today, ended at 09:00, 10:00 or 11:00 today.  A start later
\* than the end is a system clock that was set back in between.
CalcStarts == { (Today - 2) * 24 * 3600 + 9 * 3600,
                Today * 24 * 3600 + 9 * 3600,
                Today * 24 * 3600 + 11 * 3600 }
CalcNows == { Today * 24 * 3600 + h * 3600 : h \in {9, 10, 11} }
CalcPersons == {1, 2, 5}
CalcProductions == {0, 1, 100}

\* the state after start_task(product, n, a, rem) at start_time, the clock at some later reading
InitCalc ==
    \E start_time \in CalcStarts, n \in CalcPersons, a \in CalcProductions, rem \in Remarks :
        /\ sheet = << Header, NewRow(start_time, "Soap", n, a, rem) >>
        /\ running_tasks = Put(NoTasks, << "ts", 1 >>,
               [ Row |-> 2,
                 Date |-> StrfDate(start_time),
                 ProductName |-> "Soap",
                 StartTime |-> start_time,
                 TotalPersons |-> n,
                 ActualProduction |-> a,
                 Remark |-> rem,
                 Status |-> "Running" ])
        /\ now \in CalcNows
        /\ stamp = 1
        /\ msg = "Task started"
        /\ peer_tasks = NoTasks
        /\ pending = [s \in Sessions |-> << >>]

NextCalc == \E task_id \in TaskIds : EndTask(task_id)

\* end_task over the inputs of the metrics
SpecCalc == InitCalc /\ [][NextCalc]_vars

\* the dictionary of session s
TasksOf(s) == IF s = 1 THEN running_tasks ELSE peer_tasks

\* what each session enters as product name
SessionProduct(s) == IF s = 1 THEN "Soap" ELSE "Oil"

\* lines 71-87 in session s: the restore scan, the validity test and
\* append_row; the answer of line 90 is still to come
SubmitAppend(s, product_name, total_persons, actual_production, remark) ==
    LET r == Restore(TasksOf(s), sheet)
        start_time == now
    IN  /\ pending[s] = << >>
        /\ r.error = ""
        /\ ValidInput(product_name, total_persons)
        /\ Len(sheet) <= MaxRows
        /\ sheet' = AppendRow(sheet,
               NewRow(start_time, product_name, total_persons, actual_production, remark))
        /\ pending' = [pending EXCEPT ![s] =
               << [ task_id |-> << "ts", stamp + 1 >>,
                    Date |-> StrfDate(start_time),
                    ProductName |-> product_name,
                    StartTime |-> start_time,
                    TotalPersons |-> total_persons,
                    ActualProduction |-> actual_production,
                    Remark |-> remark ] >>]
        /\ stamp' = stamp + 1
        /\ IF s = 1
           THEN running_tasks' = r.tasks /\ UNCHANGED peer_tasks
           ELSE peer_tasks' = r.tasks /\ UNCHANGED running_tasks
        /\ UNCHANGED << now, msg >>

\* lines 90-103 in session s: the rows are counted and the task is stored
SubmitCount(s) ==
    /\ pending[s] # << >>
    /\ LET p == pending[s][1]
           row_index == RowIndex(sheet)
           task == [ Row |-> row_index,
                     Date |-> p.Date,
                     ProductName |-> p.ProductName,
                     StartTime |-> p.StartTime,
                     TotalPersons |-> p.TotalPersons,
                     ActualProduction |-> p.ActualProduction,
                     Remark |-> p.Remark,
                     Status |-> "Running" ]
       IN  IF s = 1
           THEN running_tasks' = Put(running_tasks, p.task_id, task) /\ UNCHANGED peer_tasks
           ELSE peer_tasks' = Put(peer_tasks, p.task_id, task) /\ UNCHANGED running_tasks
    /\ pending' = [pending EXCEPT ![s] = << >>]
    /\ msg' = "Task started"
    /\ UNCHANGED << sheet, now, stamp >>

\* two sessions submit the form; their steps interleave
NextTwo ==
    \/ \E s \in Sessions, n \in PersonCounts, a \in Productions, rem \in Remarks :
          SubmitAppend(s, SessionProduct(s), n, a, rem)
    \/ \E s \in Sessions : SubmitCount(s)
    \/ Tick
    \/ \E task_id \in TaskIds : pending[1] = << >> /\ EndTask(task_id)

SpecTwo == Init /\ [][NextTwo]_vars

\* ------------------------------------------------------------ properties
\* positions of the data rows (row 1 is the header)
DataRows == 2..Len(sheet)

\* the tasks of a dictionary whose row_reference is r
TasksOfRow(tasks, r) == { id \in DOMAIN tasks : tasks[id].Row = r }

\* C1: in every state, each persisted row whose Status is Running is
\* referenced by exactly one Task of the in-memory set.
C1_OneTaskPerRunningRow ==
    \A r \in DataRows :
        sheet[r][ColStatus] = "Running" => Cardinality(TasksOfRow(running_tasks, r)) = 1

\* C2: once end_task has completed a row, the in-memory set holds no Task
\* whose row_reference is that row, in that execution and in every later one.
C2_NoTaskOfCompletedRow ==
    \A r \in DataRows :
        sheet[r][ColStatus] = "Completed" => TasksOfRow(running_tasks, r) = {}

\* C3: cancel_task on a Running task writes Status = "Cancelled" to the row
\* at its row_reference, changes no other cell of the sheet, and removes the
\* task from the in-memory set.
C3_CancelWritesCancelled ==
    [][ \A id \in TaskIds :
            ( /\ id \in DOMAIN running_tasks
              /\ sheet[running_tasks[id].Row][ColStatus] = "Running"
              /\ CancelTask(id) )
            => /\ sheet' = [sheet EXCEPT ![running_tasks[id].Row][ColStatus] = "Cancelled"]
               /\ id \notin DOMAIN running_tasks' ]_vars

\* C4: when end_task runs to its end for a task, the row at the task's
\* row_reference has Status "Completed", End Time the captured end_time, and
\* Hours, Per Hour Production, Per Man Hour and Packaging Cost the (rounded)
\* values computed from the task's start_time, that end_time, its
\* actual_production and its total_persons.
C4_EndWritesMetrics ==
    [][ \A id \in TaskIds :
            ( /\ msg' = "Task ended"
              /\ id \in DOMAIN running_tasks
              /\ EndTask(id) )
            => LET task == running_tasks[id]
                   row == sheet'[task.Row]
                   hours == Hours(task.StartTime, now)
                   per_man_hour == PerManHour(task.ActualProduction, hours, task.TotalPersons)
               IN  /\ row[ColStatus] = "Completed"
                   /\ row[ColEnd] = StrfTime(now)
                   /\ row[ColHours] = << Round2(hours) >>
                   /\ row[ColPerHour] = << Round2(PerHour(task.ActualProduction, hours)) >>
                   /\ row[ColPerManHour] = << Round2(per_man_hour) >>
                   /\ row[ColCost] = << Round2(PackagingCost(per_man_hour)) >> ]_vars

\* C4 witness: a task of 2 persons and production 100 was ended after 2 hours
C4_Witness ==
    /\ msg = "Task ended"
    /\ \E r \in DataRows :
          /\ sheet[r][ColStatus] = "Completed"
          /\ sheet[r][ColHours] = << 200 >>
          /\ sheet[r][ColPerHour] = << 5000 >>
          /\ sheet[r][ColPerManHour] = << 2500 >>

\* C5: when the submit handler runs with an empty product name or with
\* total_persons < 1 it shows the validation error, appends no row and adds
\* no Task (the in-memory set is the one the restore scan of the execution left).
C5_InvalidStartChangesNothing ==
    [][ \A p \in Products, n \in PersonCounts, a \in Productions, rem \in Remarks :
            ( /\ msg' \in {"Task started", "Please enter Product Name and Persons"}
              /\ (p = "" \/ n < 1)
              /\ StartTask(p, n, a, rem) )
            => /\ sheet' = sheet
               /\ running_tasks' = Restore(running_tasks, sheet).tasks
               /\ \A id \in DOMAIN running_tasks' : id[1] = "ts" => id \in DOMAIN running_tasks
               /\ msg' = "Please enter Product Name and Persons" ]_vars

\* C5 witness: the validation error was shown while the sheet holds a task
C5_Witness ==
    /\ msg = "Please enter Product Name and Persons"
    /\ Len(sheet) > 1

\* C6: a successful start_task appends exactly one row, with Status "Running"
\* and End Time, Hours, Per Hour Production, Per Man Hour and Packaging Cost
\* blank, and adds exactly one Task, whose row_reference is the position of
\* the appended row.
C6_StartAppendsOneRunningRow ==
    [][ \A p \in Products, n \in PersonCounts, a \in Productions, rem \in Remarks :
            ( /\ msg' = "Task started"
              /\ StartTask(p, n, a, rem) )
            => LET before == Restore(running_tasks, sheet).tasks
                   added == DOMAIN running_tasks' \ DOMAIN before
                   last == sheet'[Len(sheet')]
               IN  /\ Len(sheet') = Len(sheet) + 1
                   /\ SubSeq(sheet', 1, Len(sheet)) = sheet
                   /\ last[ColStatus] = "Running"
                   /\ last[ColProduct] = p /\ last[ColPersons] = n /\ last[ColProduction] = a
                   /\ \A c \in {ColEnd, ColHours, ColPerHour, ColPerManHour, ColCost} :
                          last[c] = Blank
                   /\ Cardinality(added) = 1
                   /\ \A id \in DOMAIN before : running_tasks'[id] = before[id]
                   /\ \A id \in added : running_tasks'[id].Row = Len(sheet')
                   /\ Cardinality(TasksOfRow(running_tasks', Len(sheet'))) = 1 ]_vars

\* C6 witness: a second task was started while the first one is still there
C6_Witness ==
    /\ msg = "Task started"
    /\ Len(sheet) = 3
    /\ \E id \in DOMAIN running_tasks : id[1] = "ts" /\ running_tasks[id].Row = 3

\* C7: the restore scan is idempotent: a second scan of the same rows leaves
\* the in-memory set as the first scan left it.
C7_RestoreIdempotent ==
    LET first == Restore(running_tasks, sheet)
        second == Restore(first.tasks, sheet)
    IN  second = first

\* C7 witness: the last execution was a scan that rehydrated two tasks
C7_Witness ==
    /\ msg = ""
    /\ Len(sheet) = 3
    /\ \A r \in DataRows : sheet[r][ColStatus] = "Running" /\ RowTaskId(r) \in DOMAIN running_tasks

\* C8: in a fresh session the restore scan makes exactly one Task for each
\* Running row and none for another row, and the Task's row_reference is the
\* sheet position of the row it was built from.
C8_FreshRestoreOnePerRunningRow ==
    [][ Refresh =>
          /\ \A r \in DataRows :
                Cardinality(TasksOfRow(running_tasks', r))
                    = IF sheet[r][ColStatus] = "Running" THEN 1 ELSE 0
          /\ \A id \in DOMAIN running_tasks' :
                LET task == running_tasks'[id]
                IN  /\ task.Row \in DataRows
                    /\ id = << "row", task.Row >>
                    /\ task.ProductName = sheet[task.Row][ColProduct]
                    /\ task.TotalPersons = sheet[task.Row][ColPersons]
                    /\ task.ActualProduction = sheet[task.Row][ColProduction]
                    /\ StrfTime(task.StartTime) = sheet[task.Row][ColStart] ]_vars

\* C8 witness: a session that holds only rehydrated tasks, next to a
\* Completed row that got none
C8_Witness ==
    /\ msg = ""
    /\ DOMAIN running_tasks = { << "row", 3 >> }
    /\ Len(sheet) = 3
    /\ sheet[2][ColStatus] = "Completed"
    /\ sheet[3][ColStatus] = "Running"

\* C9: a Running row whose Start Time does not parse is skipped by the
\* restore scan: every Running row with a well-formed Start Time has its
\* Task after the scan and the execution goes on.
C9_MalformedRowIsSkipped ==
    [][ (Rerun \/ Refresh) =>
          /\ msg' # "ValueError"
          /\ \A r \in DataRows :
                (sheet[r][ColStatus] = "Running" /\ ParsesAsTime(sheet[r][ColStart]))
                    => TasksOfRow(running_tasks', r) # {} ]_vars

\* C10: a rehydrated Task's start_time is the stored time of day on the
\* current date, and ending it on the day it was started records as Hours
\* the time elapsed since the stored Start Time.
C10_RestoredTaskElapsedHours ==
    [][ \A id \in TaskIds :
            ( /\ id \in DOMAIN running_tasks
              /\ id[1] = "row"
              /\ sheet[running_tasks[id].Row][ColDate] = StrfDate(now)
              /\ msg' = "Task ended"
              /\ EndTask(id) )
            => LET task == running_tasks[id]
                   stored == StrpTime(sheet[task.Row][ColStart])
               IN  /\ task.StartTime = StrfDate(now) * 24 * 3600 + stored
                   /\ sheet'[task.Row][ColHours]
                          = << Round2(<< SecondsOfDay(now) - stored, 3600 >>) >> ]_vars

\* C11 as claimed: end_task removes the Task from the in-memory set even when
\* one of the cell writes fails.
C11_EndRemovesTaskEvenOnFailure ==
    [][ \A id \in TaskIds, k \in 0..5 :
            ( /\ msg' = "APIError"
              /\ EndTaskFails(id, k) )
            => id \notin DOMAIN running_tasks' ]_vars

\* C11 as amended: end_task removes the Task only after all six writes were
\* made; when a write raises, the execution stops there and the Task is
\* still in the in-memory set.
C11_EndKeepsTaskOnFailure ==
    [][ \A id \in TaskIds :
            /\ \A k \in 0..5 :
                  ( /\ msg' = "APIError"
                    /\ EndTaskFails(id, k) )
                  => /\ id \in DOMAIN running_tasks'
                     /\ running_tasks'[id] = running_tasks[id]
            /\ ( /\ msg' = "Task ended"
                 /\ EndTask(id) )
               => id \notin DOMAIN running_tasks' ]_vars

\* C11 witness: a write failed after the End Time was written; the row is
\* still Running and its task is still held
C11_Witness ==
    /\ msg = "APIError"
    /\ \E id \in DOMAIN running_tasks :
          LET row == sheet[running_tasks[id].Row]
          IN  /\ row[ColStatus] = "Running"
              /\ row[ColEnd] # Blank
              /\ row[ColCost] = Blank

\* ----------------------------------------------- properties of the metrics
RECURSIVE Gcd(_, _)
Gcd(a, b) == IF b = 0 THEN a ELSE Gcd(b, a % b)

\* the fractions q and r (positive denominators, q[1] >= 0, r[1] >= 0) are the same number
SameNumber(q, r) ==
    LET gq == Gcd(q[1], q[2])
        gr == Gcd(r[1], r[2])
    IN  /\ q[1] \div gq = r[1] \div gr
        /\ q[2] \div gq = r[2] \div gr

\* v hundredths is a nearest 2-decimal value of the fraction q
IsNearest(q, v) ==
    LET whole == q[1] \div q[2]
        rest  == q[1] % q[2]
        diff  == 100 * rest - (v - 100 * whole) * q[2]
    IN  2 * diff <= q[2] /\ 0 - 2 * diff <= q[2]

\* C12: a task ended with hours <= 0 gets per_hour, per_man_hour and
\* packaging_cost 0, whatever its actual_production and total_persons.
C12_NonPositiveHoursGiveZero ==
    [][ \A id \in TaskIds :
            ( /\ msg' = "Task ended"
              /\ id \in DOMAIN running_tasks
              /\ now <= running_tasks[id].StartTime
              /\ EndTask(id) )
            => LET task == running_tasks[id]
                   hours == Hours(task.StartTime, now)
                   per_man_hour == PerManHour(task.ActualProduction, hours, task.TotalPersons)
                   row == sheet'[task.Row]
               IN  /\ PerHour(task.ActualProduction, hours)[1] = 0
                   /\ per_man_hour[1] = 0
                   /\ PackagingCost(per_man_hour)[1] = 0
                   /\ row[ColPerHour] = << 0 >>
                   /\ row[ColPerManHour] = << 0 >>
                   /\ row[ColCost] = << 0 >> ]_vars

\* C12 witness: a task with production 100 was ended two hours before its start
C12_Witness ==
    /\ msg = "Task ended"
    /\ sheet[2][ColStatus] = "Completed"
    /\ sheet[2][ColProduction] = 100
    /\ sheet[2][ColHours] = << 0 - 200 >>
    /\ sheet[2][ColPerHour] = << 0 >>

C14_PackagingCostFromPerManHour ==
    [][ \A id \in TaskIds :
            ( /\ msg' = "Task ended"
              /\ id \in DOMAIN running_tasks
              /\ EndTask(id) )
            => LET task == running_tasks[id]
                   hours == Hours(task.StartTime, now)
                   per_man_hour == PerManHour(task.ActualProduction, hours, task.TotalPersons)
                   cost == PackagingCost(per_man_hour)
               IN  /\ per_man_hour[1] = 0 => cost[1] = 0
                   /\ per_man_hour[1] > 0 =>
                          SameNumber(cost, << 50 * per_man_hour[2], per_man_hour[1] >>)
                   /\ task.ActualProduction = 0 => sheet'[task.Row][ColCost] = << 0 >> ]_vars

\* C14 witness: 5 persons, production 0, ended after 1 hour: all three are 0
C14_Witness ==
    /\ msg = "Task ended"
    /\ sheet[2][ColStatus] = "Completed"
    /\ sheet[2][ColPersons] = 5
    /\ sheet[2][ColProduction] = 0
    /\ sheet[2][ColHours] = << 100 >>
    /\ sheet[2][ColPerHour] = << 0 >>
    /\ sheet[2][ColPerManHour] = << 0 >>
    /\ sheet[2][ColCost] = << 0 >>

\* C15: the four values end_task persists are the full-precision results
\* rounded to 2 decimals; start 09:00:00, end 11:00:00, production 100 and
\* 2 persons give Hours 2.00, Per Hour 50.00, Per Man Hour 25.00, Cost 2.00.
C15_PersistedValuesAreRounded ==
    [][ \A id \in TaskIds :
            ( /\ msg' = "Task ended"
              /\ id \in DOMAIN running_tasks
              /\ EndTask(id) )
            => LET task == running_tasks[id]
                   hours == Hours(task.StartTime, now)
                   per_man_hour == PerManHour(task.ActualProduction, hours, task.TotalPersons)
                   row == sheet'[task.Row]
               IN  /\ IsNearest(hours, row[ColHours][1])
                   /\ IsNearest(PerHour(task.ActualProduction, hours), row[ColPerHour][1])
                   /\ IsNearest(per_man_hour, row[ColPerManHour][1])
                   /\ IsNearest(PackagingCost(per_man_hour), row[ColCost][1])
                   /\ ( /\ task.StartTime = Today * 24 * 3600 + 9 * 3600
                        /\ now = Today * 24 * 3600 + 11 * 3600
                        /\ task.ActualProduction = 100
                        /\ task.TotalPersons = 2 )
                      => /\ row[ColHours] = << 200 >>
                         /\ row[ColPerHour] = << 5000 >>
                         /\ row[ColPerManHour] = << 2500 >>
                         /\ row[ColCost] = << 200 >> ]_vars

\* C15 witness: the row of the scenario
C15_Witness ==
    /\ msg = "Task ended"
    /\ sheet[2][ColStatus] = "Completed"
    /\ sheet[2][ColStart] = << 9, 0, 0 >>
    /\ sheet[2][ColEnd] = << 11, 0, 0 >>
    /\ sheet[2][ColPersons] = 2
    /\ sheet[2][ColProduction] = 100
    /\ sheet[2][ColHours] = << 200 >>
    /\ sheet[2][ColCost] = << 200 >>

\* C18 as claimed: in every Completed row, a persisted Per Man Hour of 0 goes
\* with a persisted Packaging Cost of 0.
C18_ZeroPerManHourZeroCost ==
    \A r \in DataRows :
        (sheet[r][ColStatus] = "Completed" /\ sheet[r][ColPerManHour] = << 0 >>)
            => sheet[r][ColCost] = << 0 >>

\* C18 as amended: end_task persists Per Man Hour 0 and Packaging Cost 0 for
\* a task whose unrounded per_man_hour is 0 (nothing produced, or hours <= 0);
\* a positive per_man_hour that rounds to 0.00 is persisted next to a
\* Packaging Cost of at least 10000.00.
C18_ZeroPerManHourCostZeroOrLarge ==
    [][ \A id \in TaskIds :
            ( /\ msg' = "Task ended"
              /\ id \in DOMAIN running_tasks
              /\ EndTask(id) )
            => LET task == running_tasks[id]
                   row == sheet'[task.Row]
                   nothing == task.ActualProduction = 0 \/ now <= task.StartTime
               IN  /\ nothing => (row[ColPerManHour] = << 0 >> /\ row[ColCost] = << 0 >>)
                   /\ (~nothing /\ row[ColPerManHour] = << 0 >>) => row[ColCost][1] >= 1000000 ]_vars

\* C18 witness: production 1 by 5 persons in 49 hours: Per Man Hour 0.00, Cost 12250.00
C18_Witness ==
    /\ msg = "Task ended"
    /\ sheet[2][ColStatus] = "Completed"
    /\ sheet[2][ColProduction] = 1
    /\ sheet[2][ColPersons] = 5
    /\ sheet[2][ColPerManHour] = << 0 >>
    /\ sheet[2][ColCost] = << 1225000 >>

\* C16: once a row's Status is Completed, no later operation of the session
\* changes its End Time, Hours, Per Hour Production, Per Man Hour or
\* Packaging Cost: a task is ended at most once.
C16_CompletedRowKeepsResults ==
    [][ \A r \in DataRows :
            sheet[r][ColStatus] = "Completed"
            => \A c \in {ColEnd, ColHours, ColPerHour, ColPerManHour, ColCost} :
                   sheet'[r][c] = sheet[r][c] ]_vars

\* C17: no operation deletes or reorders a row, changes a row's Date, Product
\* Name, Start Time, Total Persons, Actual Production or Remark, or turns a
\* Completed or Cancelled row back to Running; end_task writes only to
\* columns 4, 5, 8, 9, 10 and 12 of the row at row_reference.
C17_RowsAndInputCellsAreKept ==
    [][ /\ Len(sheet') >= Len(sheet)
        /\ \A r \in 1..Len(sheet) :
              /\ \A c \in {ColDate, ColProduct, ColStart, ColPersons, ColProduction, ColRemark} :
                    sheet'[r][c] = sheet[r][c]
              /\ sheet[r][ColStatus] \in {"Completed", "Cancelled"}
                    => sheet'[r][ColStatus] # "Running"
        /\ \A id \in TaskIds :
              ( /\ msg' = "Task ended"
                /\ id \in DOMAIN running_tasks
                /\ EndTask(id) )
              => /\ Len(sheet') = Len(sheet)
                 /\ \A r \in 1..Len(sheet), c \in 1..12 :
                       (r # running_tasks[id].Row \/ c \notin {4, 5, 8, 9, 10, 12})
                           => sheet'[r][c] = sheet[r][c]
                 /\ sheet'[running_tasks[id].Row][12] = "Completed" ]_vars

\* C17 witness: a task was ended next to a row that is still Running
C17_Witness ==
    /\ msg = "Task ended"
    /\ Len(sheet) = 3
    /\ \E r, q \in DataRows :
          /\ sheet[r][ColStatus] = "Completed"
          /\ sheet[r][ColEnd] # Blank
          /\ sheet[q][ColStatus] = "Running"
          /\ sheet[q][ColEnd] = Blank

\* C19: when two sessions run start_task with their steps interleaved, each
\* Task's row_reference is the row its own start_task appended, so that a
\* later end_task does not write into the other session's row.
C19_RowReferenceIsOwnRow ==
    \A s \in Sessions :
        \A id \in DOMAIN TasksOf(s) :
            id[1] = "ts" =>
                LET task == TasksOf(s)[id]
                IN  /\ sheet[task.Row][ColProduct] = task.ProductName
                    /\ sheet[task.Row][ColProduct] = SessionProduct(s)
====
